---------------------------- MODULE Spec2Model ----------------------------
(***************************************************************************)
(* EasyDocs (WhatsApp file converter bot): the message handler, the        *)
(* session manager, the temp-file manager and the conversion services that *)
(* discover their output by listing the shared temp directory.             *)
(*                                                                         *)
(* One handleMessage invocation is a process that runs from one `await` to *)
(* the next; the 'message' listener (index.js) starts an invocation per    *)
(* inbound message and nothing waits for the previous one, so invocations  *)
(* interleave at their awaits.  JavaScript objects that are shared by      *)
(* reference (session objects, uploadedFiles arrays, metadata objects)     *)
(* live in a heap indexed by small identifiers.                            *)
(***************************************************************************)
EXTENDS Integers, Sequences, FiniteSets, TLC

VARIABLES
  clock,         \* Date.now()
  userSessions,  \* the Map userSessions: user -> session object (0: no entry)
  sessions,      \* heap of session objects
  arrays,        \* heap of uploadedFiles arrays
  metas,         \* heap of metadata objects
  staging,       \* the files of TEMP_DIR
  handlers,      \* the handleMessage invocations in flight
  out,           \* the message.reply of the last step (NoReply: it sent none)
  delivered,     \* 'message' events emitted so far
  splitCall      \* a call of the page-range parser: its arguments and its result

vars == <<clock, userSessions, sessions, arrays, metas, staging, handlers, out, delivered,
          splitCall>>

---------------------------------------------------------------------------
(* Bounds of the model *)

\* handleMessage invocations that may be in flight at once
MaxHandlers == 2
\* uploads a user is sent while the session holds this many files are not delivered
MaxFiles == 2
\* files TEMP_DIR may hold when an upload is delivered
MaxStaged == 3
\* advances of the clock
MaxTicks == 3
\* 'message' events the client emits
MaxMessages == 5
\* characters of a page range
MaxLen == 4
\* pages of a PDF
MaxPages == 3

Users == {"u1", "u2"}
HandlerIds == 1..MaxHandlers
HeapSize == Cardinality(Users) + MaxHandlers + 1
ObjIds == 1..HeapSize

\* one advance of the clock (25 minutes)
TickMs == 25 * 60 * 1000

---------------------------------------------------------------------------
(* Program constants *)

SESSION_TIMEOUT == 30 * 60 * 1000
maxAge == 60 * 60 * 1000
RecentWindow == 10000

Null == "null"

---------------------------------------------------------------------------
(* detectFileType and the extension chosen for an upload *)

\* the substrings the code tests with mimetype.includes(...)
MimeIncludes(mimetype) ==
  CASE mimetype = "application/pdf" -> {"pdf"}
    [] mimetype = "image/jpeg" -> {"image"}
    [] mimetype = "application/msword" -> {"word"}
    [] mimetype = "application/vnd.ms-powerpoint" -> {"powerpoint"}
    [] OTHER -> {}

fileExtension(mimetype) ==
  LET inc == MimeIncludes(mimetype) IN
  IF "pdf" \in inc THEN ".pdf"
  ELSE IF "image" \in inc THEN ".jpg"
  ELSE IF "word" \in inc THEN ".docx"
  ELSE IF "presentation" \in inc THEN ".pptx"
  ELSE IF "spreadsheet" \in inc THEN ".xlsx"
  ELSE IF "html" \in inc THEN ".html"
  ELSE ".bin"

detectFileType(ext, mimetype) ==
  LET inc == MimeIncludes(mimetype) IN
  IF ext = ".pdf" THEN "pdf"
  ELSE IF ext \in {".jpg", ".jpeg", ".png", ".gif", ".bmp", ".webp"} THEN "image"
  ELSE IF ext \in {".doc", ".docx"} THEN "word"
  ELSE IF ext \in {".ppt", ".pptx"} THEN "powerpoint"
  ELSE IF ext \in {".xls", ".xlsx"} THEN "excel"
  ELSE IF ext \in {".html", ".htm"} THEN "html"
  ELSE IF "pdf" \in inc THEN "pdf"
  ELSE IF "image" \in inc THEN "image"
  ELSE IF "word" \in inc \/ "document" \in inc THEN "word"
  ELSE IF "presentation" \in inc \/ "powerpoint" \in inc THEN "powerpoint"
  ELSE IF "spreadsheet" \in inc \/ "excel" \in inc THEN "excel"
  ELSE IF "html" \in inc THEN "html"
  ELSE "unknown"

---------------------------------------------------------------------------
(* Temp files *)

\* a path in TEMP_DIR: temp_<ts>_<rnd><ext>
\* (pdfToImage writes pdf_image_<ts>-<page>.jpg instead)
NoPath == [prefix |-> "", ts |-> 0 - 1, rnd |-> 0, ext |-> ""]

getTempFilePath(extension, timestamp, random) ==
  [prefix |-> "temp", ts |-> timestamp, rnd |-> random, ext |-> extension]

IsPath(p) == p # NoPath

FileAt(dir, p) == {f \in dir : f.path = p}

\* verifyFile: the file exists and is not empty
verifyFile(dir, p) == IsPath(p) /\ \E f \in FileAt(dir, p) : f.size > 0

\* fs.writeFile: creates or overwrites
writeFile(dir, p, now, who) ==
  (dir \ FileAt(dir, p)) \cup {[path |-> p, mtime |-> now, size |-> 1, owner |-> who]}

\* cleanupFile / fs.remove
cleanupFile(dir, p) == dir \ FileAt(dir, p)

\* fs.move(src, dst, {overwrite: true}): a rename keeps the content and its mtime
moveFile(dir, src, dst) ==
  LET f == CHOOSE x \in FileAt(dir, src) : TRUE IN
  ((dir \ FileAt(dir, src)) \ FileAt(dir, dst)) \cup {[f EXCEPT !.path = dst]}

---------------------------------------------------------------------------
(* Session manager: a heap of session objects, arrays and metadata objects *)

\* the keys the handler writes to or reads from session.metadata
MetaKeys == {"pageRange", "pageNumber", "file", "angle", "position", "watermark",
             "password", "signature", "quality", "watermarkText"}

\* {} : every key undefined ("" stands for undefined; both are falsy)
EmptyMeta == [k \in MetaKeys |-> ""]

NullSession == [userId |-> "", uploadedFiles |-> 0, currentStep |-> "",
                selectedOperation |-> "", metadata |-> 0, lastActivity |-> 0]

Store == [userSessions |-> userSessions, sessions |-> sessions,
          arrays |-> arrays, metas |-> metas]

LeastFree(used) ==
  CHOOSE i \in ObjIds : i \notin used /\ \A j \in ObjIds : j < i => j \in used

\* objects some variable of the program still refers to
LiveSessions(S, H) ==
  ({S.userSessions[u] : u \in Users} \cup {H[h].session : h \in HandlerIds}) \ {0}

LiveArrays(S, H) ==
  ({S.sessions[i].uploadedFiles : i \in LiveSessions(S, H)}
     \cup {H[h].files : h \in HandlerIds}) \ {0}

LiveMetas(S, H) ==
  ({S.sessions[i].metadata : i \in LiveSessions(S, H)}
     \cup {H[h].metadata : h \in HandlerIds}) \ {0}

\* the object literals of the code: each evaluation makes a new object
newSession(S) == LeastFree(LiveSessions(S, handlers))
\* one array that every evaluation of [] would return
sameArray(S) == LeastFree({})
newArray(S) == LeastFree(LiveArrays(S, handlers))
newObject(S) == LeastFree(LiveMetas(S, handlers))

getSession(S, userId, now) ==
  LET S1 == IF S.userSessions[userId] # 0 THEN S
            ELSE LET sid == newSession(S)
                     aid == newArray(S)
                     mid == newObject(S)
                 IN [userSessions |-> [S.userSessions EXCEPT ![userId] = sid],
                     sessions |-> [S.sessions EXCEPT ![sid] =
                        [userId |-> userId, uploadedFiles |-> aid,
                         currentStep |-> "idle", selectedOperation |-> Null,
                         metadata |-> mid, lastActivity |-> now]],
                     arrays |-> [S.arrays EXCEPT ![aid] = << >>],
                     metas |-> [S.metas EXCEPT ![mid] = EmptyMeta]]
      sid1 == S1.userSessions[userId]
  IN [S1 EXCEPT !.sessions[sid1].lastActivity = now]

\* the session object getSession(userId) returns
SessionRef(S, userId) == S.userSessions[userId]

clearSession(S, userId) ==
  [S EXCEPT !.userSessions[userId] = 0]

\* Object.assign(session, updates); updates.metadata, when given, is a new {}
updateSession(S, userId, updates, now) ==
  LET S1 == getSession(S, userId, now)
      sid == SessionRef(S1, userId)
      S2 == IF "metadata" \in DOMAIN updates
            THEN LET mid == newObject(S1)
                 IN [S1 EXCEPT !.metas[mid] = EmptyMeta,
                               !.sessions[sid].metadata = mid]
            ELSE S1
  IN [S2 EXCEPT
        !.sessions[sid].currentStep =
           IF "currentStep" \in DOMAIN updates THEN updates.currentStep ELSE @,
        !.sessions[sid].selectedOperation =
           IF "selectedOperation" \in DOMAIN updates
           THEN updates.selectedOperation ELSE @,
        !.sessions[sid].lastActivity = now]

\* an upload that is put before the files the session holds
addFileToFront(S, userId, fileInfo, now) ==
  LET S1 == getSession(S, userId, now)
      sid == SessionRef(S1, userId)
      aid == S1.sessions[sid].uploadedFiles
  IN [S1 EXCEPT !.arrays[aid] = <<fileInfo>> \o @,
                !.sessions[sid].lastActivity = now]

addFileToSession(S, userId, fileInfo, now) ==
  LET S1 == getSession(S, userId, now)
      sid == SessionRef(S1, userId)
      aid == S1.sessions[sid].uploadedFiles
  IN [S1 EXCEPT !.arrays[aid] = Append(@, fileInfo),
                !.sessions[sid].lastActivity = now]

\* getSessionFiles returns the array itself, not a copy
getSessionFiles(S, userId, now) ==
  LET S1 == getSession(S, userId, now)
  IN [store |-> S1, files |-> S1.sessions[SessionRef(S1, userId)].uploadedFiles]

\* a clear that keeps the array
keepSessionFiles(S, userId, now) == getSession(S, userId, now)

clearSessionFiles(S, userId, now) ==
  LET S1 == getSession(S, userId, now)
      sid == SessionRef(S1, userId)
      aid == newArray(S1)
  IN [S1 EXCEPT !.arrays[aid] = << >>,
                !.sessions[sid].uploadedFiles = aid,
                !.sessions[sid].lastActivity = now]

\* an expiry after 20 minutes without activity
ExpiredEarly(session, now) == now - session.lastActivity > 20 * 60 * 1000

Expired(session, now) == now - session.lastActivity > SESSION_TIMEOUT

cleanupExpiredSessions(S, now) ==
  [S EXCEPT !.userSessions =
     [u \in Users |->
        IF S.userSessions[u] # 0 /\ Expired(S.sessions[S.userSessions[u]], now)
        THEN 0 ELSE S.userSessions[u]]]

---------------------------------------------------------------------------
(* PDF service: the page-range parser *)

\* a string is the sequence of its characters
Digits == <<"0", "1", "2", "3", "4", "5", "6", "7", "8", "9">>
Alphabet == {"0", "1", "2", "-", ",", " ", "x"}
Strings == UNION {[1..n -> Alphabet] : n \in 0..MaxLen}
All == <<"a", "l", "l">>

NaN == 0 - 1

IsDigit(c) == \E d \in 1..Len(Digits) : Digits[d] = c
DigitValue(c) == (CHOOSE d \in 1..Len(Digits) : Digits[d] = c) - 1

\* String.prototype.split with a one-character separator
RECURSIVE split(_, _)
split(s, sep) ==
  IF \A i \in 1..Len(s) : s[i] # sep
  THEN <<s>>
  ELSE LET k == CHOOSE i \in 1..Len(s) : s[i] = sep /\ \A j \in 1..(i - 1) : s[j] # sep
       IN <<SubSeq(s, 1, k - 1)>> \o split(SubSeq(s, k + 1, Len(s)), sep)

\* String.prototype.trim
trim(s) ==
  LET inked == {i \in 1..Len(s) : s[i] # " "}
  IN IF inked = {} THEN << >>
     ELSE SubSeq(s, CHOOSE i \in inked : \A j \in inked : i <= j,
                    CHOOSE i \in inked : \A j \in inked : i >= j)

includes(s, c) == \E i \in 1..Len(s) : s[i] = c

RECURSIVE decimal(_)
decimal(s) ==
  IF s = << >> THEN 0 ELSE 10 * decimal(SubSeq(s, 1, Len(s) - 1)) + DigitValue(s[Len(s)])

\* parseInt: leading blanks are skipped, the longest prefix of digits is the
\* number, and there is none (NaN) when that prefix is empty
parseInt(s) ==
  LET first == IF \A i \in 1..Len(s) : s[i] = " " THEN Len(s) + 1
               ELSE CHOOSE i \in 1..Len(s) : s[i] # " " /\ \A j \in 1..(i - 1) : s[j] = " "
      t == SubSeq(s, first, Len(s))
      n == IF \A i \in 1..Len(t) : IsDigit(t[i]) THEN Len(t)
           ELSE (CHOOSE i \in 1..Len(t) :
                   ~IsDigit(t[i]) /\ \A j \in 1..(i - 1) : IsDigit(t[j])) - 1
  IN IF n = 0 THEN NaN ELSE decimal(SubSeq(t, 1, n))

\* value || default: NaN and 0 are falsy
orElse(value, default) == IF value = NaN \/ value = 0 THEN default ELSE value

\* pages.includes(i)
contains(pages, i) == \E k \in 1..Len(pages) : pages[k] = i

\* for (let i = startNum; i <= endNum && i <= totalPages; i++) push i if new
RECURSIVE pushRange(_, _, _, _)
pushRange(pages, i, endNum, totalPages) ==
  IF i <= endNum /\ i <= totalPages
  THEN pushRange(IF i >= 1 /\ ~contains(pages, i) THEN Append(pages, i) ELSE pages,
                 i + 1, endNum, totalPages)
  ELSE pages

\* a loop body whose single-number branch leaves out the last page
parsePartShort(pages, part, totalPages) ==
  LET trimmed == trim(part)
  IN IF includes(trimmed, "-")
     THEN LET halves == split(trimmed, "-")
              start == trim(halves[1])
              end == trim(halves[2])
              startNum == orElse(parseInt(start), 1)
              endNum == IF end # << >> THEN orElse(parseInt(end), totalPages)
                        ELSE totalPages
          IN pushRange(pages, startNum, endNum, totalPages)
     ELSE LET pageNum == parseInt(trimmed)
          IN IF pageNum >= 1 /\ pageNum < totalPages /\ ~contains(pages, pageNum)
             THEN Append(pages, pageNum)
             ELSE pages

\* the body of the loop over the parts
parsePart(pages, part, totalPages) ==
  LET trimmed == trim(part)
  IN IF includes(trimmed, "-")
     THEN LET halves == split(trimmed, "-")
              start == trim(halves[1])
              end == trim(halves[2])
              startNum == orElse(parseInt(start), 1)
              endNum == IF end # << >> THEN orElse(parseInt(end), totalPages)
                        ELSE totalPages
          IN pushRange(pages, startNum, endNum, totalPages)
     ELSE LET pageNum == parseInt(trimmed)
          IN IF pageNum >= 1 /\ pageNum <= totalPages /\ ~contains(pages, pageNum)
             THEN Append(pages, pageNum)
             ELSE pages

RECURSIVE parseParts(_, _, _)
parseParts(pages, parts, totalPages) ==
  IF parts = << >> THEN pages
  ELSE parseParts(parsePart(pages, Head(parts), totalPages), Tail(parts), totalPages)

\* a parser that returns the pages in the order the tokens give them
unsorted(pages) == pages
\* pages.sort((a, b) => a - b)
sort(pages) == SortSeq(pages, LAMBDA a, b : a < b)

parsePageRange(pageRange, totalPages) ==
  sort(parseParts(<< >>, split(pageRange, ","), totalPages))

\* splitPDF: parsePageRange, then throw new Error('Invalid page range') when
\* it returned no page
splitPDFPages(pageRange, totalPages) ==
  LET pages == parsePageRange(pageRange, totalPages)
  IN IF Len(pages) = 0
     THEN [threw |-> "Invalid page range", pages |-> << >>]
     ELSE [threw |-> "", pages |-> pages]

\* removePages: the 0-based indexes of the pages that are not parsed out of
\* the page range, then throw new Error('Cannot remove all pages') when none
\* is left
RECURSIVE pagesToKeep(_, _, _)
pagesToKeep(pagesToRemove, i, totalPages) ==
  IF i <= totalPages
  THEN (IF ~contains(pagesToRemove, i) THEN <<i - 1>> ELSE << >>)
         \o pagesToKeep(pagesToRemove, i + 1, totalPages)
  ELSE << >>

\* a removePages that lets an empty document through
removePagesUnchecked(pageRange, totalPages) ==
  [threw |-> "",
   pages |-> pagesToKeep(parsePageRange(pageRange, totalPages), 1, totalPages)]

removePagesKept(pageRange, totalPages) ==
  LET kept == pagesToKeep(parsePageRange(pageRange, totalPages), 1, totalPages)
  IN IF Len(kept) = 0
     THEN [threw |-> "Cannot remove all pages", pages |-> << >>]
     ELSE [threw |-> "", pages |-> kept]

\* rotatePDF and cropPDF: for (let i = start - 1; i < (end || totalPages); i++)
\* push i when it is an index of the PDF
RECURSIVE pushIndexes(_, _, _, _)
pushIndexes(pages, i, bound, totalPages) ==
  IF i < bound
  THEN pushIndexes(IF i >= 0 /\ i < totalPages THEN Append(pages, i) ELSE pages,
                   i + 1, bound, totalPages)
  ELSE pages

\* the body of their loop over the parts; a start that is NaN makes i NaN and
\* the loop condition false
rotatePart(pages, part, totalPages) ==
  LET trimmed == trim(part)
  IN IF includes(trimmed, "-")
     THEN LET halves == split(trimmed, "-")
              start == parseInt(trim(halves[1]))
              end == parseInt(trim(halves[2]))
          IN IF start = NaN THEN pages
             ELSE pushIndexes(pages, start - 1, orElse(end, totalPages), totalPages)
     ELSE LET number == parseInt(trimmed)
          IN IF number # NaN /\ number - 1 >= 0 /\ number - 1 < totalPages
             THEN Append(pages, number - 1)
             ELSE pages

RECURSIVE rotateParts(_, _, _)
rotateParts(pages, parts, totalPages) ==
  IF parts = << >> THEN pages
  ELSE rotateParts(rotatePart(pages, Head(parts), totalPages), Tail(parts), totalPages)

\* the list pagesToRotate of rotatePDF (pagesToCrop of cropPDF is built the same)
pagesToRotate(pageRange, totalPages) ==
  IF pageRange = All
  THEN [i \in 1..totalPages |-> i - 1]
  ELSE rotateParts(<< >>, split(pageRange, ","), totalPages)

\* no call yet
NoCall == [pageRange |-> << >>, totalPages |-> 0, at |-> "none", threw |-> "",
           pages |-> << >>]

\* parsePageRange(pageRange, totalPages) returns
ParsePageRange ==
  /\ splitCall.at = "called"
  /\ splitCall' = [splitCall EXCEPT
                     !.at = "parsed",
                     !.pages = parsePageRange(splitCall.pageRange, splitCall.totalPages)]
  /\ UNCHANGED <<clock, userSessions, sessions, arrays, metas, staging, handlers, out,
                 delivered>>

\* splitPDF (and extractPages, which calls it) has parsed its page range
SplitPDF ==
  /\ splitCall.at = "called"
  /\ LET r == splitPDFPages(splitCall.pageRange, splitCall.totalPages)
     IN splitCall' = [splitCall EXCEPT
                        !.at = IF r.threw # "" THEN "threw" ELSE "split",
                        !.threw = r.threw,
                        !.pages = r.pages]
  /\ UNCHANGED <<clock, userSessions, sessions, arrays, metas, staging, handlers, out,
                 delivered>>

\* removePages has chosen the pages it keeps
RemovePages ==
  /\ splitCall.at = "called"
  /\ LET r == removePagesKept(splitCall.pageRange, splitCall.totalPages)
     IN splitCall' = [splitCall EXCEPT
                        !.at = IF r.threw # "" THEN "refused" ELSE "kept",
                        !.threw = r.threw,
                        !.pages = r.pages]
  /\ UNCHANGED <<clock, userSessions, sessions, arrays, metas, staging, handlers, out,
                 delivered>>

\* rotatePDF has chosen the pages it rotates
RotatePDF ==
  /\ splitCall.at = "called"
  /\ splitCall' = [splitCall EXCEPT
                     !.at = "rotated",
                     !.pages = pagesToRotate(splitCall.pageRange, splitCall.totalPages)]
  /\ UNCHANGED <<clock, userSessions, sessions, arrays, metas, staging, handlers, out,
                 delivered>>

---------------------------------------------------------------------------
(* Message handler: the pure parts *)

\* String.prototype.toLowerCase on the bodies the model sends
toLowerCase(body) ==
  CASE body = "Done" -> "done"
    [] body = "MENU" -> "menu"
    [] OTHER -> body

MenuCommands == {"menu", "start", "help"}

operationMap ==
  [c \in {"1", "2", "3", "4", "5", "6", "7", "8", "9", "10", "11", "12", "13", "14",
          "15", "16", "17", "18", "19", "20", "21", "22", "23", "24", "25", "26", "27"} |->
     CASE c = "1" -> "merge_pdf"          [] c = "2" -> "split_pdf"
       [] c = "3" -> "remove_pages"       [] c = "4" -> "extract_pages"
       [] c = "5" -> "compress_pdf"       [] c = "6" -> "repair_pdf"
       [] c = "7" -> "ocr_pdf"            [] c = "8" -> "image_to_pdf"
       [] c = "9" -> "word_to_pdf"        [] c = "10" -> "powerpoint_to_pdf"
       [] c = "11" -> "excel_to_pdf"      [] c = "12" -> "html_to_pdf"
       [] c = "13" -> "pdf_to_image"      [] c = "14" -> "pdf_to_word"
       [] c = "15" -> "pdf_to_powerpoint" [] c = "16" -> "pdf_to_excel"
       [] c = "17" -> "pdf_to_pdfa"       [] c = "18" -> "rotate_pdf"
       [] c = "19" -> "add_page_numbers"  [] c = "20" -> "add_watermark"
       [] c = "21" -> "crop_pdf"          [] c = "22" -> "basic_edit_pdf"
       [] c = "23" -> "unlock_pdf"        [] c = "24" -> "protect_pdf"
       [] c = "25" -> "sign_pdf"          [] c = "26" -> "redact_pdf"
       [] c = "27" -> "compare_pdf"]

\* operationMap is an object literal: a lookup of a name it does not define
\* finds the property that Object.prototype defines under that name
ObjectPrototype == {"constructor", "toString", "toLocaleString", "valueOf",
                    "hasOwnProperty", "isPrototypeOf", "propertyIsEnumerable",
                    "__proto__"}
Inherited == "[inherited]"

\* operationMap[body]: the mapped operation, an inherited property (truthy),
\* or Null (undefined) when there is neither
lookupOperation(body) ==
  IF body \in DOMAIN operationMap THEN operationMap[body]
  ELSE IF body \in ObjectPrototype THEN Inherited
  ELSE Null

\* what one pass through the switch of processOperation does before it awaits
Throw(msg) == [kind |-> "throw", step |-> "", reply |-> msg, engine |-> "", inputs |-> << >>]
Ask(step, prompt) == [kind |-> "ask", step |-> step, reply |-> prompt, engine |-> "", inputs |-> << >>]
\* a dead end that calls a service instead
callInsteadOfRefuse(msg) ==
  [kind |-> "call", step |-> "", reply |-> "", engine |-> "unlockPDF", inputs |-> << >>]

Refuse(msg) == [kind |-> "refuse", step |-> "", reply |-> msg, engine |-> "", inputs |-> << >>]
Remind(msg) == [kind |-> "remind", step |-> "", reply |-> msg, engine |-> "", inputs |-> << >>]
Call(engine, inputs) == [kind |-> "call", step |-> "", reply |-> "", engine |-> engine, inputs |-> inputs]

\* the error validateFileType throws, "" when it returns
validateFileType(files, requiredType) ==
  IF Len(files) = 0 THEN "Please send a file"
  ELSE IF files[1].type # requiredType THEN "Invalid file type"
  ELSE ""

Validated(files, requiredType, then) ==
  IF validateFileType(files, requiredType) # ""
  THEN Throw(validateFileType(files, requiredType)) ELSE then

NonEmpty(files, then) ==
  IF Len(files) = 0 THEN Throw("Please send a file") ELSE then

\* JavaScript truthiness of a metadata value
Truthy(v) == v # ""

PathsOf(files) == [i \in 1..Len(files) |-> files[i].path]

EndsWithPdf(p) == p.ext = ".pdf"

processOperationSwitch(operation, files, metadata) ==
  CASE operation = "merge_pdf" ->
         IF Len(files) < 2 THEN Throw("Please send at least 2 PDF files to merge.")
         ELSE LET pdfPaths == SelectSeq(PathsOf(files), EndsWithPdf)
              IN IF Len(pdfPaths) < 2 THEN Throw("Please send PDF files only.")
                 ELSE Call("mergePDFs", pdfPaths)
    [] operation \in {"split_pdf", "remove_pages", "extract_pages"} ->
         Validated(files, "pdf",
           IF ~Truthy(metadata["pageRange"])
           THEN Ask("waiting_for_page_range", "Please specify page range")
           ELSE Call(CASE operation = "split_pdf" -> "splitPDF"
                       [] operation = "remove_pages" -> "removePages"
                       [] OTHER -> "extractPages", <<files[1].path>>))
    [] operation = "compress_pdf" ->
         Validated(files, "pdf", Call("compressPDF", <<files[1].path>>))
    [] operation = "repair_pdf" ->
         Validated(files, "pdf", Call("repairPDF", <<files[1].path>>))
    [] operation = "ocr_pdf" ->
         Validated(files, "pdf", Call("ocrPDF", <<files[1].path>>))
    [] operation = "image_to_pdf" ->
         NonEmpty(files,
           IF files[1].type # "image" THEN Throw("Please send an image file")
           ELSE Call("imageToPDF", <<files[1].path>>))
    [] operation = "word_to_pdf" -> NonEmpty(files, Call("wordToPDF", <<files[1].path>>))
    [] operation = "powerpoint_to_pdf" ->
         NonEmpty(files, Call("powerpointToPDF", <<files[1].path>>))
    [] operation = "excel_to_pdf" -> NonEmpty(files, Call("excelToPDF", <<files[1].path>>))
    [] operation = "html_to_pdf" -> NonEmpty(files, Call("htmlToPDF", <<files[1].path>>))
    [] operation = "pdf_to_image" ->
         NonEmpty(files,
           IF files[1].type # "pdf" THEN Throw("Please send a PDF file")
           ELSE IF ~Truthy(metadata["pageNumber"]) /\ metadata["pageNumber"] # "0"
           THEN Ask("waiting_for_page_number", "Please specify page number")
           ELSE Call("pdfToImage", <<files[1].path>>))
    [] operation = "pdf_to_word" ->
         Validated(files, "pdf", Call("pdfToWord", <<files[1].path>>))
    [] operation = "pdf_to_powerpoint" ->
         Validated(files, "pdf", Call("pdfToPowerpoint", <<files[1].path>>))
    [] operation = "pdf_to_excel" ->
         Validated(files, "pdf", Call("pdfToExcel", <<files[1].path>>))
    [] operation = "pdf_to_pdfa" ->
         Validated(files, "pdf", Call("pdfToPDFA", <<files[1].path>>))
    [] operation = "rotate_pdf" ->
         Validated(files, "pdf",
           IF ~Truthy(metadata["angle"])
           THEN Ask("waiting_for_angle", "Please specify rotation angle")
           ELSE IF ~Truthy(metadata["pageRange"])
           THEN Ask("waiting_for_page_range", "Please specify pages to rotate")
           ELSE Call("rotatePDF", <<files[1].path>>))
    [] operation = "add_page_numbers" ->
         Validated(files, "pdf",
           IF ~Truthy(metadata["position"])
           THEN Ask("waiting_for_position", "Please specify position")
           ELSE Call("addPageNumbers", <<files[1].path>>))
    [] operation = "add_watermark" ->
         Validated(files, "pdf",
           IF ~Truthy(metadata["watermarkText"]) /\ Len(files) < 2
           THEN Ask("waiting_for_watermark", "Please send watermark image or type watermark text")
           ELSE Call("addWatermark",
                     IF Len(files) > 1 THEN <<files[1].path, files[2].path>>
                     ELSE <<files[1].path>>))
    [] operation = "crop_pdf" ->
         Validated(files, "pdf", Refuse("Crop PDF requires specific dimensions"))
    [] operation = "basic_edit_pdf" ->
         Validated(files, "pdf", Call("basicEditPDF", <<files[1].path>>))
    [] operation = "unlock_pdf" ->
         Validated(files, "pdf", Call("unlockPDF", <<files[1].path>>))
    [] operation = "protect_pdf" ->
         Validated(files, "pdf",
           IF ~Truthy(metadata["password"])
           THEN Ask("waiting_for_password", "Please provide a password")
           ELSE Call("protectPDF", <<files[1].path>>))
    [] operation = "sign_pdf" ->
         Validated(files, "pdf",
           IF Len(files) < 2
           THEN Ask("waiting_for_signature", "Please send the signature image")
           ELSE Call("signPDF", <<files[1].path, files[2].path>>))
    [] operation = "redact_pdf" ->
         Validated(files, "pdf", Refuse("Redact PDF requires specific coordinates"))
    [] operation = "compare_pdf" ->
         IF Len(files) < 2 THEN Remind("Please send the second PDF file to compare.")
         ELSE IF files[1].type # "pdf" \/ files[2].type # "pdf"
         THEN Throw("Both files must be PDFs for comparison.")
         ELSE Call("comparePDFs", <<files[1].path, files[2].path>>)
    [] OTHER -> Throw("Unknown operation")

\* what checkOperationRequirements does after an upload
checkOperationRequirements(operation, nfiles) ==
  CASE operation = "merge_pdf" -> "reply"
    [] operation = "compare_pdf" -> "reply"
    [] OTHER -> IF nfiles > 0 THEN "process" ELSE "nothing"

\* the metadata key handleStepOperation writes for a waiting_for_ step
\* ("" when the step is not a waiting_for_ step)
inputType(currentStep) ==
  CASE currentStep = "waiting_for_page_range" -> "pageRange"
    [] currentStep = "waiting_for_page_number" -> "pageNumber"
    [] currentStep = "waiting_for_file" -> "file"
    [] currentStep = "waiting_for_angle" -> "angle"
    [] currentStep = "waiting_for_position" -> "position"
    [] currentStep = "waiting_for_watermark" -> "watermark"
    [] currentStep = "waiting_for_password" -> "password"
    [] currentStep = "waiting_for_signature" -> "signature"
    [] OTHER -> ""

\* a handler that takes `done` with one file
mergeWithOneFile(selectedOperation, currentStep, body, nfiles) ==
  IF selectedOperation = "merge_pdf" /\ body = "done"
  THEN IF nfiles < 1 THEN "too_few" ELSE "process"
  ELSE IF inputType(currentStep) # "" THEN "store"
  ELSE IF nfiles > 0 /\ selectedOperation # Null THEN "process"
  ELSE "nothing"
\* what handleStepOperation does with a text
handleStepOperationBranch(selectedOperation, currentStep, body, nfiles) ==
  IF selectedOperation = "merge_pdf" /\ body = "done"
  THEN IF nfiles < 2 THEN "too_few" ELSE "process"
  ELSE IF inputType(currentStep) # "" THEN "store"
  ELSE IF nfiles > 0 /\ selectedOperation # Null THEN "process"
  ELSE "nothing"

---------------------------------------------------------------------------
(* The handleMessage invocations *)

\* a slot no invocation occupies
NoHandler ==
  [pc |-> "free", user |-> "", body |-> "", mimetype |-> "", session |-> 0,
   files |-> 0, metadata |-> 0, operation |-> "", inputType |-> "",
   filePath |-> NoPath, outputPath |-> NoPath, engine |-> "", inputs |-> << >>]

FreeSlots == {h \in HandlerIds : handlers[h].pc = "free"}
SlotFree == FreeSlots # {}
NextSlot == CHOOSE h \in FreeSlots : \A g \in FreeSlots : h <= g

InFlight(u) == {h \in HandlerIds : handlers[h].pc # "free" /\ handlers[h].user = u}

Reply(u, text) == [to |-> u, text |-> text]
NoReply == Reply("", "")

\* the client emits a 'message' event: a new invocation starts
Deliver == delivered < MaxMessages /\ delivered' = delivered + 1
\* an invocation in flight resumes after an await, or a timer fires
Resume == delivered' = delivered

\* every step ends here: the new values of the program's variables, with the
\* objects nothing refers to any more dropped from the heap
Commit(S, H, dir, reply) ==
  /\ userSessions' = S.userSessions
  /\ sessions' = [i \in ObjIds |->
                    IF i \in LiveSessions(S, H) THEN S.sessions[i] ELSE NullSession]
  /\ arrays' = [i \in ObjIds |-> IF i \in LiveArrays(S, H) THEN S.arrays[i] ELSE << >>]
  /\ metas' = [i \in ObjIds |-> IF i \in LiveMetas(S, H) THEN S.metas[i] ELSE EmptyMeta]
  /\ staging' = dir
  /\ handlers' = H
  /\ out' = reply
  /\ clock' = clock
  /\ splitCall' = splitCall

\* paths the program or the directory still holds
UsedPaths ==
  {f.path : f \in staging}
    \cup UNION {{arrays[a][i].path : i \in 1..Len(arrays[a])} : a \in ObjIds}
    \cup UNION {{handlers[h].filePath, handlers[h].outputPath}
                  \cup {handlers[h].inputs[i] : i \in 1..Len(handlers[h].inputs)}
                : h \in HandlerIds}

\* Math.random().toString(36).substring(2, 9): a draw that repeats no name in use
Randoms == 0..15
randomSuffix(extension, now) ==
  CHOOSE r \in Randoms :
    /\ getTempFilePath(extension, now, r) \notin UsedPaths
    /\ \A q \in Randoms : q < r => getTempFilePath(extension, now, q) \in UsedPaths

\* processOperation up to its first await: the invocation keeps the operation,
\* the uploadedFiles array and the metadata object it read
EnterProcess(S, hrec, now) ==
  LET S1 == getSession(S, hrec.user, now)
      session == S1.sessions[SessionRef(S1, hrec.user)]
      gf == getSessionFiles(S1, hrec.user, now)
  IN [store |-> gf.store,
      handler |-> [hrec EXCEPT !.pc = "process_start",
                               !.operation = session.selectedOperation,
                               !.files = gf.files,
                               !.metadata = session.metadata,
                               !.session = 0],
      reply |-> Reply(hrec.user, "Processing...")]

\* a reset that also replaces the metadata object
idleAndBlank == [currentStep |-> "idle", selectedOperation |-> Null, metadata |-> "{}"]

IdleUpdate == [currentStep |-> "idle", selectedOperation |-> Null]

\* handleMessage: menu / start / help
MenuCommand(u, body) ==
  /\ Deliver
  /\ toLowerCase(body) \in MenuCommands
  /\ SlotFree
  /\ LET S1 == getSession(Store, u, clock)
         h == NextSlot
     IN Commit(S1, [handlers EXCEPT ![h] = [NoHandler EXCEPT !.pc = "reply_reset",
                                                             !.user = u]],
               staging, Reply(u, "menu"))

\* a cancel that also drops the uploaded files
cancelThatClears(u, body) ==
  /\ Deliver
  /\ toLowerCase(body) = "cancel"
  /\ LET S1 == getSession(Store, u, clock)
         S2 == clearSessionFiles(S1, u, clock)
         S3 == updateSession(S2, u, IdleUpdate, clock)
     IN Commit(S3, handlers, staging, Reply(u, "Operation cancelled"))

\* handleMessage: cancel
CancelCommand(u, body) ==
  /\ Deliver
  /\ toLowerCase(body) = "cancel"
  /\ LET S1 == getSession(Store, u, clock)
         S2 == updateSession(S1, u, IdleUpdate, clock)
     IN Commit(S2, handlers, staging, Reply(u, "Operation cancelled"))

\* handleMessage: clear
ClearCommand(u, body) ==
  /\ Deliver
  /\ toLowerCase(body) = "clear"
  /\ LET S1 == getSession(Store, u, clock)
         S2 == clearSessionFiles(S1, u, clock)
         S3 == updateSession(S2, u, IdleUpdate, clock)
     IN Commit(S3, handlers, staging, Reply(u, "All uploaded files cleared"))

Commands == MenuCommands \cup {"cancel", "clear"}

\* the uploadedFiles of u's session, << >> when u has none
FilesOf(u) ==
  IF userSessions[u] = 0 THEN << >> ELSE arrays[sessions[userSessions[u]].uploadedFiles]

\* handleMessage with media: handleFileUpload up to its first await
FileUpload(u, mimetype) ==
  /\ Deliver
  /\ SlotFree
  /\ Len(FilesOf(u)) < MaxFiles
  /\ Cardinality(staging) < MaxStaged
  /\ LET S1 == getSession(Store, u, clock)
         h == NextSlot
     IN Commit(S1, [handlers EXCEPT ![h] = [NoHandler EXCEPT !.pc = "upload_start",
                                                             !.user = u,
                                                             !.mimetype = mimetype]],
               staging, Reply(u, "Downloading file..."))

\* handleMessage with a text while the session is idle: handleOperationSelection
OperationSelection(u, body) ==
  /\ Deliver
  /\ toLowerCase(body) \notin Commands
  /\ LET S1 == getSession(Store, u, clock)
         operation == lookupOperation(body)
     IN /\ S1.sessions[SessionRef(S1, u)].currentStep = "idle"
        /\ IF operation = Null
           THEN Commit(S1, handlers, staging, Reply(u, "Invalid option"))
           ELSE Commit(updateSession(S1, u, [selectedOperation |-> operation,
                                             currentStep |-> "waiting_for_file"], clock),
                       handlers, staging, Reply(u, "instructions"))

\* handleMessage with a text while the session is not idle: handleStepOperation
StepOperation(u, body) ==
  /\ Deliver
  /\ toLowerCase(body) \notin Commands
  /\ userSessions[u] # 0
  /\ LET S1 == getSession(Store, u, clock)
         sid == SessionRef(S1, u)
         session == S1.sessions[sid]
         files == S1.arrays[session.uploadedFiles]
         branch == handleStepOperationBranch(session.selectedOperation,
                                             session.currentStep, body, Len(files))
         key == inputType(session.currentStep)
         h == NextSlot
         hrec == [NoHandler EXCEPT !.user = u, !.body = body]
     IN /\ session.currentStep # "idle"
        /\ CASE branch = "too_few" ->
                  Commit(S1, handlers, staging,
                         Reply(u, "Please send at least 2 PDF files to merge."))
             [] branch = "nothing" -> Commit(S1, handlers, staging, NoReply)
             [] branch = "process" ->
                  /\ SlotFree
                  /\ LET e == EnterProcess(S1, hrec, clock)
                     IN Commit(e.store, [handlers EXCEPT ![h] = e.handler],
                               staging, e.reply)
             [] OTHER ->
                  /\ SlotFree
                  /\ LET value == IF key = "pageNumber" THEN toLowerCase(body) ELSE body
                         S2 == [S1 EXCEPT !.metas[session.metadata][key] = value]
                         S3 == updateSession(S2, u, [currentStep |-> "processing"], clock)
                         e == EnterProcess(S3, [hrec EXCEPT !.inputType = key], clock)
                     IN Commit(e.store, [handlers EXCEPT ![h] = e.handler],
                               staging, e.reply)

\* handleFileUpload: downloadMedia returned the media and writeFile wrote it
UploadWriteAt(h, random) ==
  /\ Resume
  /\ handlers[h].pc = "upload_start"
  /\ LET hr == handlers[h]
         ext == fileExtension(hr.mimetype)
         filePath == getTempFilePath(ext, clock, random)
     IN Commit(Store,
               [handlers EXCEPT ![h].pc = "upload_written", ![h].filePath = filePath],
               writeFile(staging, filePath, clock, hr.user), NoReply)

\* the same with a draw of Math.random that repeats no name in use
UploadWrite(h) ==
  UploadWriteAt(h, randomSuffix(fileExtension(handlers[h].mimetype), clock))

\* handleFileUpload: downloadMedia returned nothing, or writeFile threw
UploadFails(h) ==
  /\ Resume
  /\ handlers[h].pc = "upload_start"
  /\ Commit(Store, [handlers EXCEPT ![h] = NoHandler], staging,
            Reply(handlers[h].user, "Failed to download file"))

\* handleFileUpload: verifyFile, detectFileType, addFileToSession, getSession
UploadAdd(h) ==
  /\ Resume
  /\ handlers[h].pc = "upload_written"
  /\ LET hr == handlers[h]
         u == hr.user
     IN IF ~verifyFile(staging, hr.filePath)
        THEN Commit(Store, [handlers EXCEPT ![h] = NoHandler], staging,
                    Reply(u, "Failed to save file"))
        ELSE LET fileInfo == [path |-> hr.filePath,
                              type |-> detectFileType(hr.filePath.ext, hr.mimetype)]
                 S1 == addFileToSession(Store, u, fileInfo, clock)
                 S2 == getSession(S1, u, clock)
             IN Commit(S2, [handlers EXCEPT ![h].pc = "upload_received",
                                            ![h].filePath = NoPath,
                                            ![h].session = SessionRef(S2, u)],
                       staging, Reply(u, "File received!"))

\* handleFileUpload after the reply: session.selectedOperation is read from the
\* object fetched before the await; then checkOperationRequirements
UploadCheck(h) ==
  /\ Resume
  /\ handlers[h].pc = "upload_received"
  /\ LET hr == handlers[h]
         u == hr.user
         done == [handlers EXCEPT ![h] = NoHandler]
     IN IF sessions[hr.session].selectedOperation = Null
        THEN Commit(Store, done, staging, NoReply)
        ELSE LET S1 == getSession(Store, u, clock)
                 operation == S1.sessions[SessionRef(S1, u)].selectedOperation
                 gf == getSessionFiles(S1, u, clock)
                 n == Len(gf.store.arrays[gf.files])
                 todo == checkOperationRequirements(operation, n)
             IN CASE todo = "process" ->
                       LET e == EnterProcess(gf.store, [NoHandler EXCEPT !.user = u], clock)
                       IN Commit(e.store, [handlers EXCEPT ![h] = e.handler],
                                 staging, e.reply)
                  [] todo = "reply" /\ n < 2 /\ operation = "compare_pdf" ->
                       Commit(gf.store, done, staging,
                              Reply(u, IF n = 0 THEN "Please send the first PDF file."
                                       ELSE "Please send the second PDF file to compare."))
                  [] todo = "reply" /\ operation = "merge_pdf" ->
                       Commit(gf.store, done, staging,
                              Reply(u, "Send more PDFs or type done to merge."))
                  [] OTHER -> Commit(gf.store, done, staging, NoReply)

---------------------------------------------------------------------------
(* The conversion services *)

EngineKind(engine) ==
  CASE engine \in {"mergePDFs", "splitPDF", "removePages", "extractPages", "imageToPDF",
                   "rotatePDF", "addPageNumbers", "addWatermark", "unlockPDF",
                   "protectPDF", "signPDF", "pdfToPDFA", "ocrPDF"} -> "writes_output"
    [] engine \in {"compressPDF", "repairPDF"} -> "ghostscript_or_libreoffice"
    [] engine = "basicEditPDF" -> "libreoffice"
    [] engine \in {"wordToPDF", "powerpointToPDF", "excelToPDF", "htmlToPDF"} -> "office"
    [] engine = "pdfToImage" -> "images"
    [] engine = "pdfToPowerpoint" -> "throws"
    [] engine = "comparePDFs" -> "compare"
    [] OTHER -> "not_modelled"

\* the path the service allocates before its first await
EngineOutputPath(engine, now) ==
  CASE EngineKind(engine) = "compare" -> NoPath
    [] EngineKind(engine) = "throws" -> NoPath
    [] EngineKind(engine) = "images" ->
         [prefix |-> "pdf_image", ts |-> now, rnd |-> 1, ext |-> ".jpg"]
    [] OTHER -> getTempFilePath(".pdf", now, randomSuffix(".pdf", now))

\* soffice --convert-to pdf --outdir TEMP_DIR <input>: <input's basename>.pdf
sofficeOutput(input) == [input EXCEPT !.ext = ".pdf"]

SameBasename(p, q) == p.prefix = q.prefix /\ p.ts = q.ts /\ p.rnd = q.rnd

AllVerified(dir, inputs) == \A i \in 1..Len(inputs) : verifyFile(dir, inputs[i])

\* the directories soffice may leave: it wrote its output, or reported success
\* without writing any
AfterSoffice(dir, input, now, who) ==
  {dir, writeFile(dir, sofficeOutput(input), now, who)}

\* files.find(f => f.endsWith('.pdf') && f !== path.basename(pdfPath)): readdir
\* gives no order, so any such file may be the first
OtherPdfs(dir, input) ==
  {f \in dir : f.path.ext = ".pdf" /\ f.path # input}

\* officeToPDF's search: by the input's basename, else the most recent PDF
\* written within the last 10 seconds
OfficeCandidates(dir, input, now) ==
  LET byName == {f \in dir : f.path.ext = ".pdf" /\ SameBasename(f.path, input)}
      recent == {f \in dir : f.path.ext = ".pdf" /\ now - f.mtime < RecentWindow}
  IN IF byName # {} THEN byName
     ELSE {f \in recent : \A g \in recent : g.mtime <= f.mtime}

\* the found file is verified and moved to outputPath
MovedTo(dir, found, outputPath) ==
  {[dir |-> moveFile(dir, f.path, outputPath), outputPath |-> outputPath] :
     f \in {x \in found : x.size > 0}}

\* basicEditPDF, and the LibreOffice fallback of compressPDF and repairPDF
LibreOfficeResults(dir, input, outputPath, now, who) ==
  UNION {MovedTo(d, OtherPdfs(d, input), outputPath) :
           d \in AfterSoffice(dir, input, now, who)}

officeToPDFResults(dir, input, outputPath, now, who) ==
  UNION {MovedTo(d, OfficeCandidates(d, input, now), outputPath) :
           d \in AfterSoffice(dir, input, now, who)}

\* the results a service call can return: the directory it leaves and its output
EngineResults(dir, hr, now) ==
  LET kind == EngineKind(hr.engine)
      own == {[dir |-> writeFile(dir, hr.outputPath, now, hr.user),
               outputPath |-> hr.outputPath]}
  IN IF ~AllVerified(dir, hr.inputs) THEN {}
     ELSE CASE kind \in {"writes_output", "images"} -> own
            [] kind = "ghostscript_or_libreoffice" ->
                 own \cup LibreOfficeResults(dir, hr.inputs[1],
                            getTempFilePath(".pdf", now, randomSuffix(".pdf", now)),
                            now, hr.user)
            [] kind = "libreoffice" ->
                 LibreOfficeResults(dir, hr.inputs[1], hr.outputPath, now, hr.user)
            [] kind = "office" ->
                 officeToPDFResults(dir, hr.inputs[1], hr.outputPath, now, hr.user)
            [] kind = "compare" -> {[dir |-> dir, outputPath |-> NoPath]}
            [] OTHER -> {}

---------------------------------------------------------------------------
(* processOperation after its first await *)

ProcessSwitch(h) ==
  /\ Resume
  /\ handlers[h].pc = "process_start"
  /\ LET hr == handlers[h]
         u == hr.user
         r == processOperationSwitch(hr.operation, arrays[hr.files], metas[hr.metadata])
         done == [handlers EXCEPT ![h] = NoHandler]
         waiting == [hr EXCEPT !.pc = "reply_reset", !.files = 0, !.metadata = 0]
     IN CASE r.kind = "throw" ->
               Commit(Store, [handlers EXCEPT ![h] = waiting], staging,
                      Reply(u, "Error: " \o r.reply))
          [] r.kind = "refuse" ->
               Commit(Store, [handlers EXCEPT ![h] = waiting], staging,
                      Reply(u, r.reply))
          [] r.kind = "ask" ->
               Commit(updateSession(Store, u, [currentStep |-> r.step], clock),
                      done, staging, Reply(u, r.reply))
          [] r.kind = "remind" -> Commit(Store, done, staging, Reply(u, r.reply))
          [] OTHER ->
               /\ EngineKind(r.engine) # "not_modelled"
               /\ Commit(Store,
                         [handlers EXCEPT ![h] =
                            [hr EXCEPT !.pc = "engine", !.files = 0, !.metadata = 0,
                                       !.engine = r.engine, !.inputs = r.inputs,
                                       !.outputPath = EngineOutputPath(r.engine, clock)]],
                         staging, NoReply)

\* the service call returns
EngineSucceeds(h) ==
  /\ Resume
  /\ handlers[h].pc = "engine"
  /\ LET hr == handlers[h]
         u == hr.user
     IN \E r \in EngineResults(staging, hr, clock) :
          IF EngineKind(hr.engine) = "compare"
          THEN Commit(Store,
                      [handlers EXCEPT ![h] = [hr EXCEPT !.pc = "compare_reply",
                                                         !.inputs = << >>]],
                      r.dir, Reply(u, "Comparison Results"))
          ELSE Commit(Store,
                      [handlers EXCEPT ![h] = [hr EXCEPT !.pc = "deliver",
                                                         !.inputs = << >>,
                                                         !.outputPath = r.outputPath]],
                      r.dir, NoReply)

\* an engine failure that ends the invocation without a reply
engineFailsUnreported(h) ==
  /\ Resume
  /\ handlers[h].pc = "engine"
  /\ EngineKind(handlers[h].engine) # "not_modelled"
  /\ Commit(Store, [handlers EXCEPT ![h] = NoHandler], staging, NoReply)

\* the service call throws (after its own cleanupFile(outputPath)); the catch of
\* processOperation replies
EngineFails(h) ==
  /\ Resume
  /\ handlers[h].pc = "engine"
  /\ EngineKind(handlers[h].engine) # "not_modelled"
  /\ LET hr == handlers[h]
     IN Commit(Store,
               [handlers EXCEPT ![h] = [hr EXCEPT !.pc = "reply_reset", !.inputs = << >>,
                                                  !.outputPath = NoPath]],
               IF EngineKind(hr.engine) = "compare" THEN staging
               ELSE cleanupFile(staging, hr.outputPath),
               Reply(hr.user, "Error: conversion failed"))

\* verifyFile(outputPath), sendFile (reply with the media, cleanupFile), "Done!"
SendFile(h) ==
  /\ Resume
  /\ handlers[h].pc = "deliver"
  /\ LET hr == handlers[h]
         u == hr.user
     IN IF verifyFile(staging, hr.outputPath)
        THEN Commit(Store, [handlers EXCEPT ![h] = [hr EXCEPT !.pc = "done_reply",
                                                              !.outputPath = NoPath]],
                    cleanupFile(staging, hr.outputPath), Reply(u, "Done!"))
        ELSE IF EngineKind(hr.engine) = "images"
        THEN Commit(Store, [handlers EXCEPT ![h] = [hr EXCEPT !.pc = "done_reply",
                                                              !.outputPath = NoPath]],
                    staging, Reply(u, "Done!"))
        ELSE Commit(Store, [handlers EXCEPT ![h] = [hr EXCEPT !.pc = "reply_reset",
                                                              !.outputPath = NoPath]],
                    staging, Reply(u, "Error: Failed to create output file"))

\* the success path after the last reply: cleanup and reset
Complete(h) ==
  /\ Resume
  /\ handlers[h].pc \in {"done_reply", "compare_reply"}
  /\ LET hr == handlers[h]
         u == hr.user
         S2 == IF hr.pc = "done_reply"
               THEN updateSession(clearSessionFiles(Store, u, clock), u,
                                  [currentStep |-> "idle", selectedOperation |-> Null,
                                   metadata |-> "{}"], clock)
               ELSE clearSessionFiles(updateSession(Store, u, IdleUpdate, clock), u, clock)
     IN Commit(S2, [handlers EXCEPT ![h] = NoHandler], staging, NoReply)

\* updateSession(userId, { currentStep: 'idle', selectedOperation: null }) after a
\* reply: the menu, the catch blocks, crop_pdf and redact_pdf
ReplyReset(h) ==
  /\ Resume
  /\ handlers[h].pc = "reply_reset"
  /\ Commit(updateSession(Store, handlers[h].user, IdleUpdate, clock),
            [handlers EXCEPT ![h] = NoHandler], staging, NoReply)

---------------------------------------------------------------------------
(* Timers *)

\* the clock is coarse: it advances between invocations, an invocation takes
\* less than an advance
Tick ==
  /\ clock < MaxTicks * TickMs
  /\ FreeSlots = HandlerIds
  /\ clock' = clock + TickMs
  /\ out' = NoReply
  /\ UNCHANGED <<userSessions, sessions, arrays, metas, staging, handlers, delivered,
                 splitCall>>

\* setInterval(cleanupExpiredSessions, 5 * 60 * 1000)
SessionSweep ==
  /\ Resume
  /\ Commit(cleanupExpiredSessions(Store, clock), handlers, staging, NoReply)

\* a sweep that deletes nothing
cleanupNothing(dir, now) == dir

\* a sweep that reclaims after two hours
cleanupAfterTwoHours(dir, now) == {f \in dir : ~(now - f.mtime > 2 * maxAge)}

\* a sweep that reclaims at the idle timeout of the sessions
cleanupAtIdleTimeout(dir, now) == {f \in dir : ~(now - f.mtime > SESSION_TIMEOUT)}
\* cleanupOldFiles: what it leaves in TEMP_DIR
cleanupOldFiles(dir, now) == {f \in dir : ~(now - f.mtime > maxAge)}

\* cleanupOldFiles(); setInterval(cleanupOldFiles, 30 * 60 * 1000)
ArtifactSweep ==
  /\ Resume
  /\ Commit(Store, handlers, cleanupOldFiles(staging, clock), NoReply)

---------------------------------------------------------------------------
(* Specifications *)

\* the program after it was loaded: nothing received, TEMP_DIR empty
Loaded ==
  /\ clock = 0
  /\ userSessions = [u \in Users |-> 0]
  /\ sessions = [i \in ObjIds |-> NullSession]
  /\ arrays = [i \in ObjIds |-> << >>]
  /\ metas = [i \in ObjIds |-> EmptyMeta]
  /\ staging = {}
  /\ handlers = [h \in HandlerIds |-> NoHandler]
  /\ out = NoReply
  /\ delivered = 0

Init == Loaded /\ splitCall = NoCall

\* the 'message' listener: handleMessage starts for a command of u
Commanded(u, texts) ==
  \E body \in texts :
    \/ MenuCommand(u, body)
    \/ CancelCommand(u, body)
    \/ ClearCommand(u, body)

\* the 'message' listener: handleMessage starts for a text or a file of u
Conversed(u, texts, mimes) ==
  \/ \E body \in texts :
       \/ OperationSelection(u, body)
       \/ StepOperation(u, body)
  \/ \E mimetype \in mimes : FileUpload(u, mimetype)

Arrival(u, texts, mimes) == Commanded(u, texts) \/ Conversed(u, texts, mimes)

\* an invocation resumes after the await it is suspended at
Continuation(h) ==
  \/ UploadWrite(h)
  \/ UploadFails(h)
  \/ UploadAdd(h)
  \/ UploadCheck(h)
  \/ ProcessSwitch(h)
  \/ EngineSucceeds(h)
  \/ EngineFails(h)
  \/ SendFile(h)
  \/ Complete(h)
  \/ ReplyReset(h)

Resumed == \E h \in HandlerIds : Continuation(h)

Timers == Tick \/ SessionSweep \/ ArtifactSweep

\* merge and compare, with the commands
Texts == {"menu", "cancel", "clear", "done", "1", "27"}
PdfOnly == {"application/pdf"}
Next == (\E u \in Users : Arrival(u, Texts, PdfOnly)) \/ Resumed
Spec == Init /\ [][Next]_vars

\* operations that ask follow-up questions
FollowUpTexts == {"menu", "cancel", "clear", "18", "20", "90"}
NextFollowUp == Arrival("u1", FollowUpTexts, PdfOnly) \/ Resumed
SpecFollowUp == Init /\ [][NextFollowUp]_vars

\* a second user who only uploads PDFs
Bystander(u) == \E mimetype \in PdfOnly : FileUpload(u, mimetype)

\* operations whose service looks for its output in TEMP_DIR
StagingTexts == {"5", "9", "22"}
StagingMimes == {"application/pdf", "application/msword"}
NextStaging == Conversed("u1", StagingTexts, StagingMimes) \/ Bystander("u2") \/ Resumed
SpecStaging == Init /\ [][NextStaging]_vars

\* PDF to image by two users, with any draw of Math.random for an upload
Draws == {0, 1}
ImageTexts == {"13"}
ContinuationDrawn(h) ==
  \/ \E random \in Draws : UploadWriteAt(h, random)
  \/ UploadFails(h)
  \/ UploadAdd(h)
  \/ UploadCheck(h)
  \/ ProcessSwitch(h)
  \/ EngineSucceeds(h)
  \/ EngineFails(h)
  \/ SendFile(h)
  \/ Complete(h)
  \/ ReplyReset(h)
ResumedDrawn == \E h \in HandlerIds : ContinuationDrawn(h)
NextAllocation == (\E u \in Users : Conversed(u, ImageTexts, PdfOnly)) \/ ResumedDrawn
SpecAllocation == Init /\ [][NextAllocation]_vars

\* the page-range parser, called with any string and any page count
InitPages ==
  /\ Loaded
  /\ \E pageRange \in Strings \cup {All}, totalPages \in 0..MaxPages :
       splitCall = [NoCall EXCEPT !.pageRange = pageRange, !.totalPages = totalPages,
                                  !.at = "called"]
NextPages == ParsePageRange \/ SplitPDF \/ RemovePages \/ RotatePDF
SpecPages == InitPages /\ [][NextPages]_vars

\* crop and redact, with an operation that calls its service at once
DeadEndTexts == {"21", "26", "23"}
NextDeadEnds == Conversed("u1", DeadEndTexts, PdfOnly) \/ Resumed
SpecDeadEnds == Init /\ [][NextDeadEnds]_vars

\* texts sent while idle: a menu code, a number that is none, a property name
SelectionTexts == {"23", "90", "constructor"}
NextSelection == Conversed("u1", SelectionTexts, PdfOnly) \/ Resumed
SpecSelection == Init /\ [][NextSelection]_vars

\* merge and a single-file operation of one user, with the commands
OrderTexts == {"menu", "cancel", "clear", "done", "1", "23"}
NextOrder == Arrival("u1", OrderTexts, PdfOnly) \/ Resumed
SpecOrder == Init /\ [][NextOrder]_vars

\* the timers, with an operation that waits for an answer
TimedTexts == {"menu", "cancel", "clear", "3", "2-3"}
NextTimed == Arrival("u1", TimedTexts, PdfOnly) \/ Resumed \/ Timers
SpecTimed == Init /\ [][NextTimed]_vars

\* the timers under fair scheduling: time advances, the interval of the
\* artifact sweep fires, and the awaits of every invocation return, so that
\* again and again no invocation is in flight
ReclaimTexts == {"23"}
NextReclaim ==
  \/ Conversed("u1", ReclaimTexts, PdfOnly)
  \/ \E body \in {"clear"} : ClearCommand("u1", body)
  \/ Resumed
  \/ Timers
SpecReclaim ==
  /\ Init /\ [][NextReclaim]_vars
  /\ WF_vars(Tick) /\ WF_vars(ArtifactSweep)
  /\ []<>(FreeSlots = HandlerIds)

---------------------------------------------------------------------------
(* Properties *)

\* the session object the Map holds for u, NullSession when it holds none
SessionOf(u) == IF userSessions[u] = 0 THEN NullSession ELSE sessions[userSessions[u]]

\* C1: handleMessage runs to completion for one message of a user before it
\* starts for the next message of that user: no user ever has two invocations
\* in flight.
SerializedPerUser == \A u \in Users : Cardinality(InFlight(u)) <= 1

\* the invocations of u that wait for a conversion service to return
EngineCalls(u) == {h \in InFlight(u) : handlers[h].pc = "engine"}

\* C3: for one user there is never more than one call of a conversion service
\* in progress.
OneEngineCallPerUser == \A u \in Users : Cardinality(EngineCalls(u)) <= 1

\* C4: the file an operation is about to deliver was written for the user the
\* operation runs for, never taken from another session's files in TEMP_DIR.
DeliversOwnOutput ==
  \A h \in HandlerIds :
    handlers[h].pc = "deliver" =>
      \A f \in FileAt(staging, handlers[h].outputPath) : f.owner = handlers[h].user

\* C6: with merge selected, mergePDFs is called only for the text `done`.
MergeOnlyOnDone ==
  \A h \in HandlerIds :
    handlers[h].pc = "engine" /\ handlers[h].engine = "mergePDFs" =>
      handlers[h].body = "done"

\* everything the program does for a message of u: the start of its invocation
\* and each resumption of an invocation of u
EventOf(u, texts, mimes) ==
  \/ Arrival(u, texts, mimes)
  \/ \E h \in InFlight(u) : Continuation(h)

\* the fields of u's session, the array and the metadata object by value
SessionFields(u) ==
  IF userSessions[u] = 0
  THEN [userId |-> "", uploadedFiles |-> << >>, currentStep |-> "",
        selectedOperation |-> "", metadata |-> EmptyMeta, lastActivity |-> 0]
  ELSE [userId |-> u,
        uploadedFiles |-> arrays[SessionOf(u).uploadedFiles],
        currentStep |-> SessionOf(u).currentStep,
        selectedOperation |-> SessionOf(u).selectedOperation,
        metadata |-> metas[SessionOf(u).metadata],
        lastActivity |-> SessionOf(u).lastActivity]

\* no two sessions hold the same array or the same metadata object
NoSharing ==
  \A a, b \in Users :
    a # b /\ userSessions[a] # 0 /\ userSessions[b] # 0 =>
      /\ SessionOf(a).uploadedFiles # SessionOf(b).uploadedFiles
      /\ SessionOf(a).metadata # SessionOf(b).metadata
      /\ userSessions[a] # userSessions[b]

HasInputs(u) ==
  /\ userSessions[u] # 0
  /\ SessionOf(u).selectedOperation # Null
  /\ Len(arrays[SessionOf(u).uploadedFiles]) > 0

\* the files of u's session that are in TEMP_DIR
StagedInputs(u) ==
  {f \in staging : \E i \in 1..Len(SessionFields(u).uploadedFiles) :
                      SessionFields(u).uploadedFiles[i].path = f.path}

\* C5 as the spec states it: a sweep leaves every input of an operation in
\* progress, written no more than an hour ago, in TEMP_DIR and in the session.
SweepsKeepInputs ==
  [][SessionSweep \/ ArtifactSweep =>
       \A u \in Users :
         HasInputs(u) =>
           \A f \in StagedInputs(u) :
             clock - f.mtime <= maxAge => f \in staging' /\ f \in StagedInputs(u)']_vars

\* C5: the artifact sweep leaves every input of an operation in progress that
\* was written no more than an hour ago in TEMP_DIR, and the session sweep
\* leaves the session of an operation in progress, its files included, as it
\* is unless the session has been idle for more than 30 minutes.
SweepsRespectThresholds ==
  [][\A u \in Users :
       HasInputs(u) =>
         /\ ArtifactSweep =>
              \A f \in StagedInputs(u) : clock - f.mtime <= maxAge => f \in staging'
         /\ SessionSweep /\ ~Expired(SessionOf(u), clock) =>
              SessionFields(u)' = SessionFields(u)
         /\ SessionSweep /\ Expired(SessionOf(u), clock) => userSessions'[u] = 0]_vars

\* a session was evicted while its file, written less than an hour ago, is
\* still in TEMP_DIR
EvictedBeforeRetention ==
  \E f \in staging :
    /\ userSessions[f.owner] = 0
    /\ clock - f.mtime <= maxAge
    /\ clock - f.mtime > SESSION_TIMEOUT

\* u has selected merge, the session waits, and it holds n files, all PDFs
MergeCollected(u, n) ==
  /\ userSessions[u] # 0
  /\ SessionOf(u).selectedOperation = "merge_pdf"
  /\ SessionOf(u).currentStep = "waiting_for_file"
  /\ Len(SessionFields(u).uploadedFiles) = n
  /\ \A i \in 1..n : SessionFields(u).uploadedFiles[i].type = "pdf"

\* the step started processOperation for u's merge
StartsMerge(u) ==
  \E h \in HandlerIds :
    /\ handlers[h].pc = "free"
    /\ handlers'[h].pc = "process_start"
    /\ handlers'[h].user = u
    /\ handlers'[h].operation = "merge_pdf"
    /\ out' = Reply(u, "Processing...")

IdleAndEmpty(u) ==
  /\ SessionFields(u).currentStep = "idle"
  /\ SessionFields(u).uploadedFiles = << >>

CompareCollected(u) ==
  /\ userSessions[u] # 0
  /\ SessionOf(u).selectedOperation = "compare_pdf"
  /\ Len(SessionFields(u).uploadedFiles) = 2
  /\ \A i \in 1..2 : SessionFields(u).uploadedFiles[i].type = "pdf"

\* C8: with compare selected, the upload that brings the session to two PDFs
\* goes on to processOperation by itself.
CompareAutoAdvance ==
  [][\A h \in HandlerIds, u \in Users :
       /\ handlers[h].user = u
       /\ handlers[h].session = userSessions[u]
       /\ CompareCollected(u)
       /\ UploadCheck(h)
       => handlers'[h].pc = "process_start"]_vars

\* u's session waits for the answer that is stored under key
Awaiting(u, key) ==
  userSessions[u] # 0 /\ inputType(SessionOf(u).currentStep) = key

\* the keys processOperation asks for
AskedKeys == MetaKeys \ {"file"}

\* C9: once a text was stored as the answer to the question for a key, the
\* processOperation it started does not ask for that key again.
AnswerMakesProgress ==
  [][\A h \in HandlerIds, u \in Users, key \in AskedKeys :
       /\ handlers[h].user = u
       /\ handlers[h].inputType = key
       /\ ProcessSwitch(h)
       => ~Awaiting(u, key)']_vars

\* the session is as getSession creates it
Reset(u) ==
  /\ SessionFields(u).uploadedFiles = << >>
  /\ SessionFields(u).selectedOperation = Null
  /\ SessionFields(u).currentStep = "idle"
  /\ SessionFields(u).metadata = EmptyMeta

\* C10: when processOperation ends on its success path the session has no
\* files, no operation, the step idle and an empty metadata.
ResetOnSuccess ==
  [][\A h \in HandlerIds, u \in Users :
       handlers[h].user = u /\ Complete(h) => Reset(u)']_vars

\* the invocation h stands in the catch block of processOperation after its
\* engine call threw
EngineFailed(h) ==
  handlers[h].pc = "reply_reset" /\ handlers[h].engine # ""

\* C11: when the engine call of a processOperation fails, the failure and the
\* reset that follows leave uploadedFiles and metadata as they were, and the
\* reset sets currentStep to idle and selectedOperation to null.
EngineFailureKeepsInputs ==
  [][\A h \in HandlerIds, u \in Users :
       handlers[h].user = u =>
         /\ EngineFails(h) => SessionFields(u)' = SessionFields(u)
         /\ EngineFailed(h) /\ ReplyReset(h) =>
              /\ SessionFields(u)'.currentStep = "idle"
              /\ SessionFields(u)'.selectedOperation = Null
              /\ SessionFields(u)'.uploadedFiles = SessionFields(u).uploadedFiles
              /\ SessionFields(u)'.metadata = SessionFields(u).metadata]_vars

\* an engine call failed for a session that holds files and a stored answer
EngineFailureReported ==
  \E h \in HandlerIds :
    /\ EngineFailed(h)
    /\ out = Reply(handlers[h].user, "Error: conversion failed")
    /\ SessionFields(handlers[h].user).uploadedFiles # << >>
    /\ SessionFields(handlers[h].user).metadata # EmptyMeta

\* C12: every validation error is reported and leaves the session idle with no
\* selected operation and with its files and metadata: the error of `done`
\* with fewer than two files (handleStepOperation), and the errors thrown by
\* the checks of processOperation, whose catch block runs the reset.
ValidationErrorResets ==
  [][\A u \in Users :
       /\ MergeCollected(u, 1) /\ StepOperation(u, "done") =>
            /\ out' = Reply(u, "Please send at least 2 PDF files to merge.")
            /\ SessionFields(u)'.currentStep = "idle"
            /\ SessionFields(u)'.selectedOperation = Null
            /\ SessionFields(u)'.uploadedFiles = SessionFields(u).uploadedFiles
            /\ SessionFields(u)'.metadata = SessionFields(u).metadata
       /\ \A h \in InFlight(u) :
            handlers[h].engine = "" /\ ReplyReset(h) =>
              /\ SessionFields(u)'.currentStep = "idle"
              /\ SessionFields(u)'.selectedOperation = Null
              /\ SessionFields(u)'.uploadedFiles = SessionFields(u).uploadedFiles
              /\ SessionFields(u)'.metadata = SessionFields(u).metadata]_vars

\* C13: `cancel` sent while the session is not idle sets currentStep to idle
\* and selectedOperation to null and leaves uploadedFiles as it is.
CancelKeepsFiles ==
  [][\A u \in Users :
       /\ userSessions[u] # 0
       /\ SessionOf(u).currentStep # "idle"
       /\ CancelCommand(u, "cancel")
       => /\ out' = Reply(u, "Operation cancelled")
          /\ SessionFields(u)'.currentStep = "idle"
          /\ SessionFields(u)'.selectedOperation = Null
          /\ SessionFields(u)'.uploadedFiles = SessionFields(u).uploadedFiles]_vars

\* a cancel was answered for a session that holds files, while a merge of the
\* same user is still in its engine call
CancelledWithFiles ==
  \E u \in Users, h \in HandlerIds :
    /\ out = Reply(u, "Operation cancelled")
    /\ SessionFields(u).uploadedFiles # << >>
    /\ SessionFields(u).currentStep = "idle"
    /\ handlers[h].user = u
    /\ handlers[h].pc = "engine"

\* C14: `clear` leaves the user's session record in the store, the same one
\* when there was one, with uploadedFiles empty, currentStep idle and no
\* selected operation.
ClearEmptiesFiles ==
  [][\A u \in Users :
       ClearCommand(u, "clear") =>
         /\ out' = Reply(u, "All uploaded files cleared")
         /\ userSessions'[u] # 0
         /\ userSessions[u] # 0 => userSessions'[u] = userSessions[u]
         /\ SessionFields(u)'.uploadedFiles = << >>
         /\ SessionFields(u)'.currentStep = "idle"
         /\ SessionFields(u)'.selectedOperation = Null]_vars

\* a clear was answered for a user whose upload had been added to the session
ClearedAfterUpload ==
  \E u \in Users :
    /\ out = Reply(u, "All uploaded files cleared")
    /\ InFlight(u) = {}
    /\ \E f \in staging : f.owner = u
    /\ SessionFields(u).uploadedFiles = << >>

\* what getSession gives u on its next use: a session as it is first created
FreshOnNextUse(u) ==
  LET S1 == getSession(Store, u, clock)
      session == S1.sessions[SessionRef(S1, u)]
  IN /\ session.userId = u
     /\ session.currentStep = "idle"
     /\ session.selectedOperation = Null
     /\ S1.arrays[session.uploadedFiles] = << >>
     /\ S1.metas[session.metadata] = EmptyMeta
     /\ session.lastActivity = clock

\* C15: a session sweep removes from the store exactly the sessions whose
\* lastActivity is more than 30 minutes old and leaves every other session as
\* it is; the next getSession of an evicted user creates a fresh session.
SweepEvictsExactlyExpired ==
  [][SessionSweep =>
       \A u \in Users :
         /\ userSessions[u] # 0 /\ clock - SessionOf(u).lastActivity > SESSION_TIMEOUT
              => userSessions'[u] = 0 /\ FreshOnNextUse(u)'
         /\ userSessions[u] # 0 /\ clock - SessionOf(u).lastActivity <= SESSION_TIMEOUT
              => userSessions'[u] = userSessions[u] /\ SessionFields(u)' = SessionFields(u)
         /\ userSessions[u] = 0 => userSessions'[u] = 0]_vars

\* a user who had sent messages has no session after more than 30 minutes
ExpiredSessionEvicted ==
  \E u \in Users :
    /\ delivered > 0
    /\ clock > SESSION_TIMEOUT
    /\ userSessions[u] = 0
    /\ \E f \in staging : f.owner = u
    /\ FreshOnNextUse(u)

\* u's session has had no activity for longer than the session timeout
IdleBeyondTimeout(u) ==
  userSessions[u] # 0 /\ clock - SessionOf(u).lastActivity > SESSION_TIMEOUT

\* C16: a message that arrives when the session has been idle for longer than
\* the timeout, swept or not, does not continue the old session: after it the
\* user's session is another object, or holds none of the old step, operation,
\* files and answers.
ExpiredSessionNotResumed ==
  [][\A u \in Users :
       IdleBeyondTimeout(u) /\ Arrival(u, TimedTexts, PdfOnly) =>
         \/ userSessions'[u] # userSessions[u]
         \/ /\ SessionFields(u).currentStep # "idle" =>
                 SessionFields(u)'.currentStep # SessionFields(u).currentStep
            /\ SessionFields(u).selectedOperation # Null =>
                 SessionFields(u)'.selectedOperation # SessionFields(u).selectedOperation
            /\ SessionFields(u).uploadedFiles # << >> =>
                 SessionFields(u)'.uploadedFiles # SessionFields(u).uploadedFiles
            /\ SessionFields(u).metadata # EmptyMeta =>
                 SessionFields(u)'.metadata # SessionFields(u).metadata]_vars

\* C17: an artifact sweep deletes every file of TEMP_DIR that was written more
\* than one hour ago and leaves every other file in it.
ArtifactSweepByAge ==
  [][ArtifactSweep =>
       \A f \in staging :
         /\ clock - f.mtime > maxAge => f \notin staging'
         /\ clock - f.mtime <= maxAge => f \in staging']_vars

\* a session holds a file written more than an hour ago that is no longer in
\* TEMP_DIR
OldArtifactDeleted ==
  \E u \in Users :
    /\ SessionFields(u).uploadedFiles # << >>
    /\ \A i \in 1..Len(SessionFields(u).uploadedFiles) :
         /\ ~verifyFile(staging, SessionFields(u).uploadedFiles[i].path)
         /\ clock - SessionFields(u).uploadedFiles[i].path.ts > maxAge

\* the paths an invocation got from getTempFilePath or built for its output,
\* and still uses
HeldPaths(h) == {handlers[h].filePath, handlers[h].outputPath} \ {NoPath}

\* C18: no two invocations hold the same temp path: every path handed out is
\* different from every path handed out to another invocation.
UniqueTempPaths ==
  \A h1, h2 \in HandlerIds : h1 # h2 => HeldPaths(h1) \cap HeldPaths(h2) = {}

\* C19: the list parsePageRange returns holds only integers from 1 to
\* totalPages, in strictly ascending order (so each at most once), whatever
\* the string and the order of its tokens.
PagesNormalized ==
  splitCall.at = "parsed" =>
    /\ \A k \in 1..Len(splitCall.pages) : splitCall.pages[k] \in 1..splitCall.totalPages
    /\ \A k \in 1..(Len(splitCall.pages) - 1) : splitCall.pages[k] < splitCall.pages[k + 1]

\* a page range that names page 2 before page 1, with no range, was parsed
DescendingTokensParsed ==
  /\ splitCall.at = "parsed"
  /\ Len(splitCall.pageRange) >= 3
  /\ splitCall.pageRange[1] = "2"
  /\ includes(splitCall.pageRange, ",")
  /\ ~includes(splitCall.pageRange, "-")
  /\ splitCall.pages = <<1, 2>>

\* the tokens of the page range a call was given
Tokens == {split(splitCall.pageRange, ",")[k] :
             k \in 1..Len(split(splitCall.pageRange, ","))}

\* a token that is not a range and holds no digit
Unparseable(part) ==
  /\ trim(part) # << >>
  /\ ~includes(trim(part), "-")
  /\ \A i \in 1..Len(trim(part)) : ~IsDigit(trim(part)[i])

\* C20: splitPDF fails with the invalid-range error when the parsed set is
\* empty and when a token of the page range is unparseable; it never goes on
\* with an empty set and never skips an unparseable token.
InvalidSelectorRejected ==
  /\ splitCall.at = "split" => splitCall.pages # << >>
  /\ splitCall.at \in {"split", "threw"} /\ (\E part \in Tokens : Unparseable(part))
       => splitCall.at = "threw" /\ splitCall.threw = "Invalid page range"

\* C21: for a page range whose tokens are all numbers or ranges of numbers,
\* the pages parsePageRange returns are the union over the tokens of: n, for
\* a number n from 1 to totalPages; and for a range a-b the integers from a to
\* b that lie from 1 to totalPages, a being 1 and b being totalPages when
\* left out.
ParsedAsUnion ==
  splitCall.at = "parsed" =>
    LET total == splitCall.totalPages
        parts == split(splitCall.pageRange, ",")
        AllDigits(s) == \A i \in 1..Len(s) : IsDigit(s[i])
        IsNumber(t) == t # << >> /\ AllDigits(t)
        IsRange(t) == /\ Len(split(t, "-")) = 2
                      /\ AllDigits(split(t, "-")[1])
                      /\ AllDigits(split(t, "-")[2])
        Low(t) == IF split(t, "-")[1] = << >> THEN 1 ELSE decimal(split(t, "-")[1])
        High(t) == IF split(t, "-")[2] = << >> THEN total ELSE decimal(split(t, "-")[2])
        Meant(t) == IF IsNumber(t) THEN {decimal(t)} \cap (1..total)
                    ELSE (Low(t)..High(t)) \cap (1..total)
    IN (\A k \in 1..Len(parts) : IsNumber(trim(parts[k])) \/ IsRange(trim(parts[k])))
       => {splitCall.pages[i] : i \in 1..Len(splitCall.pages)}
            = UNION {Meant(trim(parts[k])) : k \in 1..Len(parts)}

\* C22: for a page range from which the parser gets at least one page,
\* removePages keeps exactly the pages from 1 to totalPages that are not in
\* the parsed list, in ascending order, and throws when no page is left.
RemoveKeepsComplement ==
  LET parsed == parsePageRange(splitCall.pageRange, splitCall.totalPages)
      removed == {parsed[k] : k \in 1..Len(parsed)}
      left == (1..splitCall.totalPages) \ removed
  IN splitCall.at \in {"kept", "refused"} /\ removed # {} =>
       /\ left = {} <=> splitCall.at = "refused"
       /\ splitCall.at = "refused" => splitCall.threw = "Cannot remove all pages"
       /\ splitCall.at = "kept" =>
            /\ {splitCall.pages[k] + 1 : k \in 1..Len(splitCall.pages)} = left
            /\ \A k \in 1..(Len(splitCall.pages) - 1) :
                 splitCall.pages[k] < splitCall.pages[k + 1]

\* removePages dropped the middle page of three
MiddlePageRemoved ==
  /\ splitCall.at = "kept"
  /\ splitCall.totalPages = 3
  /\ parsePageRange(splitCall.pageRange, 3) = <<2>>
  /\ splitCall.pages = <<0, 2>>

\* C23: writing the list parsePageRange returned as its numbers in decimal,
\* joined by commas, and parsing that string with the same totalPages gives
\* the same list.
ReparseIsIdentity ==
  splitCall.at = "parsed" =>
    LET RECURSIVE toString(_)
        toString(n) == IF n < 10 THEN <<Digits[n + 1]>>
                       ELSE toString(n \div 10) \o <<Digits[(n % 10) + 1]>>
        RECURSIVE join(_)
        join(pages) == IF pages = << >> THEN << >>
                       ELSE IF Len(pages) = 1 THEN toString(pages[1])
                       ELSE toString(pages[1]) \o <<",">> \o join(Tail(pages))
    IN parsePageRange(join(splitCall.pages), splitCall.totalPages) = splitCall.pages

\* a range was parsed into the three pages of a PDF
RangeParsedToThree ==
  /\ splitCall.at = "parsed"
  /\ includes(splitCall.pageRange, "-")
  /\ splitCall.pages = <<1, 2, 3>>

\* C24: for a page range other than 'all', the pages rotatePDF (and cropPDF)
\* selects are the pages parsePageRange gives split, extract and remove for
\* the same string and page count.
SameSelectionEverywhere ==
  splitCall.at = "rotated" /\ splitCall.pageRange # All =>
    LET parsed == parsePageRange(splitCall.pageRange, splitCall.totalPages)
    IN {splitCall.pages[k] + 1 : k \in 1..Len(splitCall.pages)}
         = {parsed[k] : k \in 1..Len(parsed)}

\* C25: with the page range 'all' and a PDF that has pages, split (extract)
\* selects every page, rotate selects every page, and remove pages, asked to
\* remove every page, refuses.
AllMeansEveryPage ==
  splitCall.pageRange = All /\ splitCall.totalPages >= 1 =>
    /\ splitCall.at # "threw"
    /\ splitCall.at = "split" =>
         splitCall.pages = [i \in 1..splitCall.totalPages |-> i]
    /\ splitCall.at = "rotated" =>
         splitCall.pages = [i \in 1..splitCall.totalPages |-> i - 1]
    /\ splitCall.at # "kept"

\* C26: whenever processOperation goes on to call a service, the first
\* collected file has the type the operation requires: word for Word to PDF,
\* pdf for the operations on PDFs.
TypeCheckedBeforeEngine ==
  [][\A h \in HandlerIds :
       ProcessSwitch(h) /\ handlers'[h].pc = "engine" =>
         LET first == arrays[handlers[h].files][1]
             required == CASE handlers[h].operation = "word_to_pdf" -> "word"
                           [] handlers[h].operation = "powerpoint_to_pdf" -> "powerpoint"
                           [] handlers[h].operation = "excel_to_pdf" -> "excel"
                           [] handlers[h].operation = "html_to_pdf" -> "html"
                           [] handlers[h].operation = "image_to_pdf" -> "image"
                           [] OTHER -> "pdf"
         IN first.type = required]_vars

FailuresReset ==
  [][\A h \in HandlerIds, u \in Users :
       handlers[h].user = u =>
         /\ UploadFails(h) =>
              /\ out'.to = u
              /\ SessionFields(u)'.currentStep = "idle"
              /\ SessionFields(u)'.selectedOperation = Null
         /\ EngineFails(h) => out'.to = u
         /\ EngineFailed(h) /\ ReplyReset(h) =>
              /\ SessionFields(u)'.currentStep = "idle"
              /\ SessionFields(u)'.selectedOperation = Null]_vars

SelectionIsLookup ==
  [][\A u \in Users, body \in SelectionTexts :
       OperationSelection(u, body) =>
         IF body \in DOMAIN operationMap
         THEN /\ SessionFields(u)'.selectedOperation = operationMap[body]
              /\ SessionFields(u)'.currentStep = "waiting_for_file"
         ELSE /\ out' = Reply(u, "Invalid option")
              /\ SessionFields(u)'.currentStep = "idle"
              /\ SessionFields(u)'.selectedOperation = Null
              /\ userSessions[u] # 0 =>
                   /\ SessionFields(u)'.uploadedFiles = SessionFields(u).uploadedFiles
                   /\ SessionFields(u)'.metadata = SessionFields(u).metadata]_vars

\* C31: a text that is no command, sent while the session waits for a file or
\* is processing, is rejected: it is not stored in metadata, it leaves
\* currentStep and selectedOperation as they are and it starts no
\* processOperation (`done` for a merge aside, which is the merge trigger).
TextRejectedOutsideItsState ==
  [][\A u \in Users, body \in Texts \ Commands :
       /\ userSessions[u] # 0
       /\ SessionOf(u).currentStep \in {"waiting_for_file", "processing"}
       /\ ~(SessionOf(u).selectedOperation = "merge_pdf" /\ body = "done")
       /\ StepOperation(u, body)
       => /\ SessionFields(u)'.metadata = SessionFields(u).metadata
          /\ SessionFields(u)'.currentStep = SessionFields(u).currentStep
          /\ SessionFields(u)'.selectedOperation = SessionFields(u).selectedOperation
          /\ handlers' = handlers]_vars

\* C32: a text that is neither a command nor a menu number, sent by a user
\* whose session is idle (a first message included), is answered with the
\* main menu.
AnyTextShowsMenu ==
  [][\A u \in Users, body \in SelectionTexts \ (DOMAIN operationMap \cup ObjectPrototype) :
       OperationSelection(u, body) => out' = Reply(u, "menu")]_vars

\* C33: when an operation completes, its cleanup leaves none of the session's
\* uploaded files in TEMP_DIR (the delivered output was deleted by sendFile
\* before).
CompletionCleansStaging ==
  [][\A h \in HandlerIds, u \in Users :
       handlers[h].user = u /\ Complete(h) =>
         /\ FileAt(staging', handlers[h].outputPath) = {}
         /\ \A i \in 1..Len(SessionFields(u).uploadedFiles) :
              FileAt(staging', SessionFields(u).uploadedFiles[i].path) = {}]_vars

\* C34: a new session starts with currentStep idle, and once the currentStep
\* of a session is processing its next value is idle, never a step that waits
\* for a file or for an answer.
ProcessingEndsIdle ==
  [][\A u \in Users :
       /\ userSessions[u] = 0 /\ userSessions'[u] # 0 =>
            SessionFields(u)'.currentStep \in {"idle", "waiting_for_file"}
       /\ SessionFields(u).currentStep = "processing" =>
            SessionFields(u)'.currentStep \in {"processing", "idle"}]_vars

\* C35: uploadedFiles keeps the order of insertion: an upload is appended at
\* the end and leaves the files before it in place; a cancel, a failed service
\* call and the reset after a failure leave the sequence as it is; and an
\* invocation whose array is still the session's (no clear and no completed
\* operation replaced it meanwhile) calls a service with the first file of
\* the session's sequence, a merge with the paths of all of them in their
\* order.
UploadOrderKept ==
  [][\A h \in HandlerIds, u \in Users :
       LET files == SessionFields(u).uploadedFiles
       IN /\ handlers[h].user = u /\ UploadAdd(h) /\ handlers'[h].pc = "upload_received" =>
               /\ Len(SessionFields(u)'.uploadedFiles) = Len(files) + 1
               /\ SubSeq(SessionFields(u)'.uploadedFiles, 1, Len(files)) = files
               /\ SessionFields(u)'.uploadedFiles[Len(files) + 1].path = handlers[h].filePath
          /\ CancelCommand(u, "cancel") => SessionFields(u)'.uploadedFiles = files
          /\ handlers[h].user = u /\ (EngineFails(h) \/ ReplyReset(h)) =>
               SessionFields(u)'.uploadedFiles = files
          /\ /\ handlers[h].user = u
             /\ handlers[h].files = SessionOf(u).uploadedFiles
             /\ ProcessSwitch(h) /\ handlers'[h].pc = "engine"
             => /\ files # << >>
                /\ handlers'[h].inputs[1] = files[1].path
                /\ handlers'[h].engine = "mergePDFs" => handlers'[h].inputs = PathsOf(files)]_vars

\* a merge was called with the two files of the session, the earlier upload
\* first
MergedInUploadOrder ==
  \E h \in HandlerIds :
    /\ handlers[h].pc = "engine"
    /\ handlers[h].engine = "mergePDFs"
    /\ Len(handlers[h].inputs) = 2
    /\ handlers[h].inputs = PathsOf(SessionFields(handlers[h].user).uploadedFiles)
    /\ handlers[h].inputs[1].rnd < handlers[h].inputs[2].rnd

\* C36: whenever no invocation of handleMessage for u is in flight, u's
\* session has currentStep idle exactly when it has no selected operation.
IdleIffNoOperation ==
  \A u \in Users :
    userSessions[u] # 0 /\ InFlight(u) = {} =>
      (SessionOf(u).currentStep = "idle" <=> SessionOf(u).selectedOperation = Null)

\* C37: every file in the uploadedFiles of a session that is in the store and
\* has not expired is still in TEMP_DIR.
LiveFilesStaged ==
  \A u \in Users :
    userSessions[u] # 0 /\ ~Expired(SessionOf(u), clock) =>
      \A i \in 1..Len(SessionFields(u).uploadedFiles) :
        FileAt(staging, SessionFields(u).uploadedFiles[i].path) # {}

\* C38: when the selection of an operation takes a session from idle to
\* waiting for a file, the metadata of the session holds no answer.
SelectionStartsBlank ==
  [][\A u \in Users, body \in DOMAIN operationMap :
       OperationSelection(u, body) => SessionFields(u)'.metadata = EmptyMeta]_vars

\* C39: the completion of an operation does not overwrite a state that was
\* set while it ran: when the session's selected operation is no longer the
\* one the completing invocation read at its start (a cancel or a new
\* selection came meanwhile), the completion leaves selectedOperation and
\* currentStep as they are.
CompletionKeepsLaterState ==
  [][\A h \in HandlerIds, u \in Users :
       /\ handlers[h].user = u
       /\ handlers[h].pc = "done_reply"
       /\ SessionOf(u).selectedOperation \notin {Null, handlers[h].operation}
       /\ Complete(h)
       => /\ SessionFields(u)'.selectedOperation = SessionFields(u).selectedOperation
          /\ SessionFields(u)'.currentStep = SessionFields(u).currentStep]_vars

\* C40: with time advancing and the artifact sweep and the awaits scheduled
\* fairly, every file of TEMP_DIR is deleted in the end, whether a session
\* lists it or not: for every time of writing that the clock can leave more
\* than an hour behind, the files written then are eventually all gone.
ArtifactsReclaimed ==
  \A t \in 0..MaxTicks :
    t * TickMs + maxAge < MaxTicks * TickMs =>
      ((\E f \in staging : f.mtime = t * TickMs) ~> (\A f \in staging : f.mtime # t * TickMs))

\* TEMP_DIR is empty after more than an hour while the session in the store
\* still lists an upload
ReclaimedWhileListed ==
  /\ staging = {}
  /\ clock > maxAge
  /\ userSessions["u1"] # 0
  /\ SessionFields("u1").uploadedFiles # << >>

=============================================================================
